---- MODULE Spec2Model ----
(***************************************************************************)
(* html-diff-rs: the positional tree walker of src/src/lib.rs.             *)
(*                                                                         *)
(* A document is a tree of nodes as kuchiki hands it to the walker.  A     *)
(* Rust String is a sequence of characters, each character a one-element   *)
(* TLA+ string, so that the string scraping of NodeRef::name (split,       *)
(* byte slicing) is computed rather than assumed.                          *)
(***************************************************************************)
EXTENDS Integers, Sequences, FiniteSets, TLC

VARIABLES content1, content2, pc, stack, path, result, reported, first

vars == <<content1, content2, pc, stack, path, result, reported, first>>

(***************************************************************************)
(* Strings                                                                 *)
(***************************************************************************)

\* The two-byte character U+00E9 (UTF-8 C3 A9), one token of a string.
EAcute == "U+00E9"

MultiByte == {EAcute}

WhiteSpace == {" ", "\n", "\t"}

EmptyString == <<>>

RECURSIVE Concat(_)
\* ss: a sequence of strings; their concatenation.
Concat(ss) == IF ss = <<>> THEN <<>> ELSE Head(ss) \o Concat(Tail(ss))

RECURSIVE Join(_, _)
\* [String]::join(sep)
Join(ss, sep) ==
    IF ss = <<>> THEN <<>>
    ELSE IF Len(ss) = 1 THEN Head(ss)
    ELSE Head(ss) \o sep \o Join(Tail(ss), sep)

\* The index of the first c in s, Len(s) + 1 if there is none.
FirstIndex(s, c) ==
    IF \E i \in DOMAIN s : s[i] = c
    THEN CHOOSE i \in DOMAIN s : s[i] = c /\ \A j \in 1..(i - 1) : s[j] # c
    ELSE Len(s) + 1

\* s.split(c).next().unwrap(): what precedes the first c (all of s if none).
SplitFirst(s, c) == SubSeq(s, 1, FirstIndex(s, c) - 1)

\* &s[1..] is defined when byte 1 is in bounds and a character boundary.
SliceFrom1Defined(s) == s # <<>> /\ Head(s) \notin MultiByte

SliceFrom1(s) == Tail(s)

RECURSIVE TrimStart(_)
TrimStart(s) ==
    IF s = <<>> THEN <<>>
    ELSE IF Head(s) \in WhiteSpace THEN TrimStart(Tail(s))
    ELSE s

RECURSIVE TrimEnd(_)
TrimEnd(s) ==
    IF s = <<>> THEN <<>>
    ELSE IF s[Len(s)] \in WhiteSpace THEN TrimEnd(SubSeq(s, 1, Len(s) - 1))
    ELSE s

\* str::trim
Trim(s) == TrimEnd(TrimStart(s))

DigitChar == <<"0", "1", "2", "3", "4", "5", "6", "7", "8", "9">>

RECURSIVE Decimal(_)
\* format!("{}", n) of an unsigned integer
Decimal(n) ==
    IF n < 10 THEN <<DigitChar[n + 1]>>
    ELSE Decimal(n \div 10) \o <<DigitChar[(n % 10) + 1]>>

(***************************************************************************)
(* Nodes (the kuchiki tree the walker reads)                               *)
(***************************************************************************)

\* attrs: the attribute map in its iteration order, a sequence of <<key, value>>
\* with distinct keys.
Element(tag, attrs, children) ==
    [kind |-> "Element", name |-> tag, attrs |-> attrs, text |-> <<>>,
     children |-> children]

Text(s) ==
    [kind |-> "Text", name |-> <<>>, attrs |-> <<>>, text |-> s, children |-> <<>>]

Comment(s) ==
    [kind |-> "Comment", name |-> <<>>, attrs |-> <<>>, text |-> s, children |-> <<>>]

Doctype(n) ==
    [kind |-> "Doctype", name |-> n, attrs |-> <<>>, text |-> <<>>, children |-> <<>>]

Document(children) ==
    [kind |-> "Document", name |-> <<>>, attrs |-> <<>>, text |-> <<>>,
     children |-> children]

\* NodeRef::as_element / into_element_ref, as_text, as_comment
as_element(e) == e.kind = "Element"

as_text(e) == e.kind = "Text"

as_comment(e) == e.kind = "Comment"

\* The attribute map as a map: the set of its entries.
AttrMap(attrs) == {attrs[i] : i \in DOMAIN attrs}

(***************************************************************************)
(* Serialisation (NodeRef::to_string) and the ToOutput trait               *)
(***************************************************************************)

\* Escaping of one character of a text node or attribute value.
EscapeChar(c) ==
    IF c = "&" THEN <<"&", "a", "m", "p", ";">>
    ELSE IF c = "<" THEN <<"&", "l", "t", ";">>
    ELSE IF c = ">" THEN <<"&", "g", "t", ";">>
    ELSE <<c>>

Escape(s) == Concat([i \in DOMAIN s |-> EscapeChar(s[i])])

\* One attribute in a start tag:  key="value"  after a space.
AttrToString(kv) == <<" ">> \o kv[1] \o <<"=", "\"">> \o Escape(kv[2]) \o <<"\"">>

RECURSIVE to_string(_)
\* NodeRef::to_string: the markup of the node and of its whole subtree.
to_string(e) ==
    IF e.kind = "Element" THEN
        <<"<">> \o e.name
            \o Concat([i \in DOMAIN e.attrs |-> AttrToString(e.attrs[i])])
            \o <<">">>
            \o Concat([i \in DOMAIN e.children |-> to_string(e.children[i])])
            \o <<"<", "/">> \o e.name \o <<">">>
    ELSE IF e.kind = "Text" THEN Escape(e.text)
    ELSE IF e.kind = "Comment" THEN
        <<"<", "!", "-", "-">> \o e.text \o <<"-", "-", ">">>
    ELSE IF e.kind = "Doctype" THEN
        <<"<", "!", "D", "O", "C", "T", "Y", "P", "E", " ">> \o e.name \o <<">">>
    ELSE Concat([i \in DOMAIN e.children |-> to_string(e.children[i])])

RECURSIVE text_contents(_)
\* The concatenation of the text nodes below e, in document order.
text_contents(e) ==
    IF e.kind = "Text" THEN e.text
    ELSE Concat([i \in DOMAIN e.children |-> text_contents(e.children[i])])

\* format!("\"{}\"=\"{}\"", k.local, v)
AttrOutput(kv) == <<"\"">> \o kv[1] \o <<"\"", "=", "\"">> \o kv[2] \o <<"\"">>

\* impl ToOutput for NodeDataRef<ElementData>: output
ElementOutput(e) ==
    <<"<">> \o e.name \o <<" ">>
        \o Join([i \in DOMAIN e.attrs |-> AttrOutput(e.attrs[i])], <<" ">>)
        \o <<">">> \o text_contents(e) \o <<"<", "/">> \o e.name \o <<">">>

\* impl ToOutput for NodeDataRef<ElementData>: name
ElementName(e) == e.name

\* impl ToOutput for NodeRef: output
NodeRefOutput(e) == to_string(e)

\* impl ToOutput for NodeRef: name, up to the byte slice.
NodeRefNameScrape(e) == SplitFirst(SplitFirst(to_string(e), " "), ">")

\* impl ToOutput for NodeRef: name aborts when the slice [1..] is undefined.
NodeRefNamePanics(e) == ~SliceFrom1Defined(NodeRefNameScrape(e))

\* impl ToOutput for NodeRef: name
NodeRefName(e) == SliceFrom1(NodeRefNameScrape(e))

(***************************************************************************)
(* ElementInformation and Difference                                       *)
(***************************************************************************)

Slash == <<"/">>

\* ElementInformation::new over an element reference
new_element(e, p) ==
    [element_name |-> ElementName(e), element_content |-> ElementOutput(e),
     path |-> Join(p, Slash)]

\* ElementInformation::new over a NodeRef (defined when the name does not abort)
new_node(e, p) ==
    [element_name |-> NodeRefName(e), element_content |-> NodeRefOutput(e),
     path |-> Join(p, Slash)]

\* ElementInformation::from_path
from_path(p) ==
    [element_name |-> EmptyString, element_content |-> EmptyString,
     path |-> Join(p, Slash)]

None == [some |-> FALSE]

Some(v) == [some |-> TRUE, val |-> v]

NodeType(e, o) == [kind |-> "NodeType", elem |-> e, opposite_elem |-> o]

NodeName(e, o) == [kind |-> "NodeName", elem |-> e, opposite_elem |-> o]

NodeAttributes(e, ea, o, oa) ==
    [kind |-> "NodeAttributes", elem |-> e, elem_attributes |-> ea,
     opposite_elem |-> o, opposite_elem_attributes |-> oa]

NodeText(e, et, o, ot) ==
    [kind |-> "NodeText", elem |-> e, elem_text |-> et,
     opposite_elem |-> o, opposite_elem_text |-> ot]

NotPresent(e, o) == [kind |-> "NotPresent", elem |-> e, opposite_elem |-> o]

\* map_conversion: the HashMap<String, String> of the entries.
map_conversion(attrs) == AttrMap(attrs)

\* Variant of AttrMissing with the test inverted (== for !=): C1 rejects it.
AttrPresent(kv, attrs2) == kv \in AttrMap(attrs2)

\* The closure of check_elements: e2's map has no entry k -> v.
AttrMissing(kv, attrs2) == kv \notin AttrMap(attrs2)

\* Variant of check_elements without the comparison of the two map lengths:
\* C6 rejects it.
check_elements_without_len(elem1, elem2, p) ==
    IF elem1.name # elem2.name THEN
        Some(NodeName(new_element(elem1, p), new_element(elem2, p)))
    ELSE IF \E i \in DOMAIN elem1.attrs : AttrMissing(elem1.attrs[i], elem2.attrs)
    THEN
        Some(NodeAttributes(new_element(elem1, p), map_conversion(elem1.attrs),
                            new_element(elem2, p), map_conversion(elem2.attrs)))
    ELSE None

\* check_elements: Some(difference) or None
check_elements(elem1, elem2, p) ==
    IF elem1.name # elem2.name THEN
        Some(NodeName(new_element(elem1, p), new_element(elem2, p)))
    ELSE IF \/ Len(elem1.attrs) # Len(elem2.attrs)
            \/ \E i \in DOMAIN elem1.attrs : AttrMissing(elem1.attrs[i], elem2.attrs)
    THEN
        Some(NodeAttributes(new_element(elem1, p), map_conversion(elem1.attrs),
                            new_element(elem2, p), map_conversion(elem2.attrs)))
    ELSE None

\* Variant of check_if_comment_or_empty_text without the trim: C5 rejects it.
check_without_trim(e) ==
    /\ ~as_comment(e)
    /\ IF as_text(e) THEN e.text # <<>> ELSE TRUE

\* check_if_comment_or_empty_text: TRUE for the nodes that take part
check_if_comment_or_empty_text(e) ==
    /\ ~as_comment(e)
    /\ IF as_text(e) THEN Trim(e.text) # <<>> ELSE TRUE

\* element.children().filter(|e| check_if_comment_or_empty_text(e))
Filtered(e) == SelectSeq(e.children, check_if_comment_or_empty_text)

\* Iterator::next after k earlier calls
IterNext(seq, k) == IF k < Len(seq) THEN Some(seq[k + 1]) ELSE None

\* Variant of PathSegment that counts from 1: C4 rejects it.
PathSegmentFromOne(tag, pos) == tag \o <<"[">> \o Decimal(pos + 1) \o <<"]">>

\* format!("{}[{}]", elem.name.local, pos)
PathSegment(tag, pos) == tag \o <<"[">> \o Decimal(pos) \o <<"]">>

(***************************************************************************)
(* go_through_tree, one loop iteration per step                            *)
(***************************************************************************)

\* One activation of go_through_tree.  it: the calls made so far of it1.next()
\* and it2.next() (always made together); need_pop: the caller pushed a path
\* segment for this call; at: the positions, among the compared children,
\* that lead from the roots to the pair this activation walks (not program
\* state: it names the place for the properties below).
Frame(e1, e2, np, at) ==
    [element1 |-> e1, element2 |-> e2, it |-> 0, pos |-> 0,
     differences |-> <<>>, need_pop |-> np, at |-> at]

Top == stack[Len(stack)]

\* (it1.next(), it2.next()) of the running activation
Next1 == IterNext(Filtered(Top.element1), Top.it)

Next2 == IterNext(Filtered(Top.element2), Top.it)

\* The place of the pair the running activation compares next.
HereAt == Top.at \o <<Top.it + 1>>

\* The NodeType arms of the match: both sides go through ElementInformation::new
\* over a NodeRef.
TypeDiffers(e1, e2, p) == Some(NodeType(new_node(e1, p), new_node(e2, p)))

\* The match of the loop when both children are present: Some(difference) or
\* None.
BothPresent(e1, e2, p) ==
    IF as_element(e1) /\ as_element(e2) THEN check_elements(e1, e2, p)
    ELSE IF ~as_element(e1) /\ ~as_element(e2) THEN
        IF as_text(e1) /\ as_text(e2) THEN
            IF e1.text # e2.text
            THEN Some(NodeText(from_path(p), e1.text, from_path(p), e2.text))
            ELSE None
        ELSE IF ~as_text(e1) /\ ~as_text(e2) THEN None
        ELSE TypeDiffers(e1, e2, p)
    ELSE TypeDiffers(e1, e2, p)

\* The match of the loop for a pair of which at least one side is present.
Classify(n1, n2, p) ==
    IF n1.some /\ n2.some THEN BothPresent(n1.val, n2.val, p)
    ELSE IF n1.some THEN Some(NotPresent(Some(new_node(n1.val, p)), None))
    ELSE Some(NotPresent(None, Some(new_node(n2.val, p))))

\* The arm taken calls ElementInformation::new over a NodeRef whose name aborts.
BothPresentPanics(e1, e2) ==
    /\ \/ as_element(e1) # as_element(e2)
       \/ ~as_element(e1) /\ ~as_element(e2) /\ as_text(e1) # as_text(e2)
    /\ NodeRefNamePanics(e1) \/ NodeRefNamePanics(e2)

ClassifyPanics(n1, n2) ==
    IF n1.some /\ n2.some THEN BothPresentPanics(n1.val, n2.val)
    ELSE IF n1.some THEN NodeRefNamePanics(n1.val)
    ELSE NodeRefNamePanics(n2.val)

SetTop(f) == [stack EXCEPT ![Len(stack)] = f]

\* get_differences: the walk starts on the two documents with the path
\* vec![String::new()].
get_differences ==
    /\ pc = "ready"
    /\ pc' = "walk"
    /\ stack' = <<Frame(content1, content2, FALSE, <<>>)>>
    /\ path' = <<EmptyString>>
    /\ UNCHANGED <<content1, content2, result, reported, first>>

\* Variant of Report without the continue: the difference is pushed and the
\* walk goes on into the pair (unwrap aborts when a side is absent).  C2
\* rejects it.
ReportAndDescend ==
    /\ pc = "walk"
    /\ Next1.some \/ Next2.some
    /\ ~ClassifyPanics(Next1, Next2)
    /\ Classify(Next1, Next2, path).some
    /\ LET d == Classify(Next1, Next2, path).val
           np == Next1.some /\ as_element(Next1.val)
       IN /\ reported' = Append(reported, [at |-> HereAt, diff |-> d])
          /\ IF Next1.some /\ Next2.some
             THEN /\ path' = IF np
                             THEN Append(path, PathSegment(Next1.val.name, Top.pos))
                             ELSE path
                  /\ stack' = Append(SetTop([Top EXCEPT
                                                !.it = @ + 1,
                                                !.differences = Append(@, d),
                                                !.pos = IF np THEN @ + 1 ELSE @]),
                                     Frame(Next1.val, Next2.val, np, HereAt))
                  /\ pc' = pc
             ELSE /\ pc' = "panicked"
                  /\ UNCHANGED <<stack, path>>
    /\ UNCHANGED <<content1, content2, result, first>>

\* An iteration whose match yields a difference: push it and continue.
Report ==
    /\ pc = "walk"
    /\ Next1.some \/ Next2.some
    /\ ~ClassifyPanics(Next1, Next2)
    /\ Classify(Next1, Next2, path).some
    /\ LET d == Classify(Next1, Next2, path).val
       IN /\ stack' = SetTop([Top EXCEPT !.it = @ + 1,
                                         !.differences = Append(@, d)])
          /\ reported' = Append(reported, [at |-> HereAt, diff |-> d])
    /\ UNCHANGED <<content1, content2, pc, path, result, first>>

\* An iteration whose match aborts inside NodeRef::name.
Abort ==
    /\ pc = "walk"
    /\ Next1.some \/ Next2.some
    /\ ClassifyPanics(Next1, Next2)
    /\ pc' = "panicked"
    /\ UNCHANGED <<content1, content2, stack, path, result, reported, first>>

\* An iteration whose match yields nothing: push the segment when the first
\* child is an element, and walk the pair's children.
Descend ==
    /\ pc = "walk"
    /\ Next1.some \/ Next2.some
    /\ ~ClassifyPanics(Next1, Next2)
    /\ ~Classify(Next1, Next2, path).some
    /\ LET e1 == Next1.val
           np == as_element(e1)
       IN /\ path' = IF np
                     THEN Append(path, PathSegment(e1.name, Top.pos))
                     ELSE path
          /\ stack' = Append(SetTop([Top EXCEPT !.it = @ + 1,
                                                !.pos = IF np THEN @ + 1 ELSE @]),
                             Frame(e1, Next2.val, np, HereAt))
    /\ UNCHANGED <<content1, content2, pc, result, reported, first>>

\* Variant of Return whose caller puts the returned differences before its
\* own: C9 rejects it.
ReturnPrepending ==
    /\ pc = "walk"
    /\ ~Next1.some /\ ~Next2.some
    /\ IF Len(stack) = 1
       THEN /\ result' = Top.differences
            /\ pc' = "done"
            /\ stack' = <<>>
            /\ path' = path
       ELSE LET caller == stack[Len(stack) - 1]
            IN /\ stack' = [SubSeq(stack, 1, Len(stack) - 1)
                              EXCEPT ![Len(stack) - 1] =
                                  [caller EXCEPT !.differences = Top.differences \o @]]
               /\ path' = IF Top.need_pop THEN SubSeq(path, 1, Len(path) - 1) ELSE path
               /\ UNCHANGED <<pc, result>>
    /\ UNCHANGED <<content1, content2, reported, first>>

\* Variant of Return whose caller never pops the segment: C8 rejects it.
ReturnWithoutPop ==
    /\ pc = "walk"
    /\ ~Next1.some /\ ~Next2.some
    /\ IF Len(stack) = 1
       THEN /\ result' = Top.differences
            /\ pc' = "done"
            /\ stack' = <<>>
            /\ path' = path
       ELSE LET caller == stack[Len(stack) - 1]
            IN /\ stack' = [SubSeq(stack, 1, Len(stack) - 1)
                              EXCEPT ![Len(stack) - 1] =
                                  [caller EXCEPT !.differences = @ \o Top.differences]]
               /\ path' = path
               /\ UNCHANGED <<pc, result>>
    /\ UNCHANGED <<content1, content2, reported, first>>

\* Both iterators are exhausted: the activation returns its differences; the
\* caller extends its own with them and pops the segment it pushed.
Return ==
    /\ pc = "walk"
    /\ ~Next1.some /\ ~Next2.some
    /\ IF Len(stack) = 1
       THEN /\ result' = Top.differences
            /\ pc' = "done"
            /\ stack' = <<>>
            /\ path' = path
       ELSE LET caller == stack[Len(stack) - 1]
            IN /\ stack' = [SubSeq(stack, 1, Len(stack) - 1)
                              EXCEPT ![Len(stack) - 1] =
                                  [caller EXCEPT !.differences = @ \o Top.differences]]
               /\ path' = IF Top.need_pop THEN SubSeq(path, 1, Len(path) - 1) ELSE path
               /\ UNCHANGED <<pc, result>>
    /\ UNCHANGED <<content1, content2, reported, first>>

Walk == get_differences \/ Report \/ Abort \/ Descend \/ Return

(***************************************************************************)
(* Inputs                                                                  *)
(***************************************************************************)

\* Longest child sequence of the enumerated flat documents.
MaxWidth == 2

\* The same, for the documents that are compared twice.
TwoCallWidth == 1

SeqsUpTo(S, n) == UNION {[1..k -> S] : k \in 0..n}

El(tag, children) == Element(tag, <<>>, children)

Id1 == <<<<"i", "d">>, <<"1">>>>

Id2 == <<<<"i", "d">>, <<"2">>>>

K2 == <<<<"k">>, <<"2">>>>

K3 == <<<<"k">>, <<"3">>>>

\* The nodes the flat documents are made of: elements that differ in tag,
\* attributes and children, a text whose scraped name is defined, a text that
\* starts with a space, and a comment.
Alphabet ==
    { El(<<"a">>, <<>>),
      El(<<"b">>, <<Text(<<"x">>)>>),
      Element(<<"a">>, <<Id1>>, <<>>),
      Text(<<"x", "y">>),
      Text(<<" ", "x">>),
      Comment(<<"c">>) }

FlatDocs(w) == {Document(s) : s \in SeqsUpTo(Alphabet, w)}

\* What kuchiki::parse_html builds around the markup of a body.
Parsed(body) ==
    Document(<<El(<<"h", "t", "m", "l">>,
                  <<El(<<"h", "e", "a", "d">>, <<>>),
                    El(<<"b", "o", "d", "y">>, body)>>)>>)

Div(attrs, children) == Element(<<"d", "i", "v">>, attrs, children)

Foo(children) == El(<<"f", "o", "o">>, children)

P(attrs, children) == Element(<<"p">>, attrs, children)

HtmlDoctype == Doctype(<<"h", "t", "m", "l">>)

\* The documents of the tests basic_diff, children_diff, check_child_below and
\* test_path.
TestDocs ==
    { Parsed(<<Div(<<>>, <<Foo(<<>>)>>)>>),
      Parsed(<<Div(<<>>, <<P(<<>>, <<>>)>>)>>),
      Parsed(<<Div(<<>>, <<Foo(<<P(<<>>, <<>>)>>)>>)>>),
      Parsed(<<Div(<<>>, <<P(<<>>, <<El(<<"t">>, <<>>)>>)>>)>>),
      Parsed(<<Div(<<>>, <<Foo(<<>>), El(<<"a">>, <<>>),
                           El(<<"b">>, <<El(<<"c">>, <<>>)>>)>>)>>),
      Parsed(<<Div(<<>>, <<Foo(<<>>), El(<<"a">>, <<>>),
                           El(<<"b">>, <<El(<<"c">>, <<El(<<"d">>, <<>>)>>)>>)>>)>>) }

\* Deeper documents: a doctype, attributes in two iteration orders, texts
\* (blank, starting with a space, starting with a two-byte character), comments
\* and elements nested three deep.
DeepDocs ==
    { Document(<<HtmlDoctype,
                 Div(<<Id1>>, <<Text(<<"h", "i">>), Comment(<<"c">>),
                                P(<<Id1, K2>>, <<Text(<<"x">>)>>)>>)>>),
      Document(<<HtmlDoctype,
                 Div(<<Id1>>, <<Text(<<"h", "i">>),
                                P(<<K2, Id1>>, <<Text(<<"x", "y">>)>>),
                                Text(<<" ", "\n">>)>>)>>),
      Document(<<HtmlDoctype,
                 Div(<<Id1>>, <<Text(<<" ", "x">>), P(<<Id1, K3>>, <<>>)>>)>>),
      Document(<<Div(<<Id2>>, <<Text(<<"x">>)>>), P(<<>>, <<>>), HtmlDoctype>>),
      Document(<<HtmlDoctype,
                 Div(<<Id1>>, <<El(<<"a">>, <<>>), Text(<<"h", "i">>),
                                Text(<<">">>)>>)>>),
      Document(<<El(<<"a">>, <<El(<<"b">>, <<El(<<"c">>, <<Text(<<"x">>)>>)>>)>>)>>),
      Document(<<El(<<"a">>, <<El(<<"b">>, <<El(<<"c">>, <<Text(<<"x", "y">>)>>),
                                             El(<<"c">>, <<>>)>>),
                               El(<<"b">>, <<>>)>>),
                 Text(<<"x">>)>>),
      Document(<<El(<<"a">>, <<El(<<"c">>, <<El(<<"c">>, <<>>)>>),
                               El(<<"b">>, <<El(<<"d">>, <<>>)>>)>>),
                 Text(<<EAcute, "x">>)>>) }

Docs == FlatDocs(MaxWidth) \cup TestDocs \cup DeepDocs

TwoCallDocs == FlatDocs(TwoCallWidth) \cup TestDocs \cup DeepDocs

(***************************************************************************)
(* The caller                                                              *)
(***************************************************************************)

\* The nodes whose presence on one side must not matter.
Insignificant == {Comment(<<"c">>), Text(<<" ", "\n">>)}

InsertAt(s, i, n) == SubSeq(s, 1, i) \o <<n>> \o SubSeq(s, i + 1, Len(s))

RECURSIVE Insertions(_, _)
\* e with n inserted at one position of one child sequence of its tree.
Insertions(e, n) ==
    IF e.kind \notin {"Element", "Document"} THEN {}
    ELSE {[e EXCEPT !.children = InsertAt(@, i, n)] : i \in 0..Len(e.children)}
         \cup UNION {{[e EXCEPT !.children[j] = c] : c \in Insertions(e.children[j], n)}
                     : j \in DOMAIN e.children}

NoCall ==
    [called |-> FALSE, how |-> "none", pc |-> "none", result |-> <<>>,
     content1 |-> Document(<<>>), content2 |-> Document(<<>>)]

Finished == pc \in {"done", "panicked"}

Remember(how) ==
    [called |-> TRUE, how |-> how, pc |-> pc, result |-> result,
     content1 |-> content1, content2 |-> content2]

Reset ==
    /\ pc' = "ready"
    /\ stack' = <<>>
    /\ path' = <<>>
    /\ result' = <<>>
    /\ reported' = <<>>

\* The caller compares the same two documents the other way round.
CallSwapped ==
    /\ Finished
    /\ ~first.called
    /\ first' = Remember("swap")
    /\ content1' = content2
    /\ content2' = content1
    /\ Reset

\* The caller compares again after one insignificant node was inserted in one
\* of the two documents.
CallWithInsertion ==
    /\ Finished
    /\ ~first.called
    /\ first' = Remember("insert")
    /\ \E n \in Insignificant :
          \/ content1' \in Insertions(content1, n) /\ content2' = content2
          \/ content2' \in Insertions(content2, n) /\ content1' = content1
    /\ Reset

Start ==
    /\ pc = "ready"
    /\ stack = <<>>
    /\ path = <<>>
    /\ result = <<>>
    /\ reported = <<>>
    /\ first = NoCall

Init == content1 \in Docs /\ content2 \in Docs /\ Start

Next == Walk

Spec == Init /\ [][Next]_vars

InitTwo == content1 \in TwoCallDocs /\ content2 \in TwoCallDocs /\ Start

NextTwo == Walk \/ CallSwapped \/ CallWithInsertion

SpecTwo == InitTwo /\ [][NextTwo]_vars

(***************************************************************************)
(* Vocabulary of the properties: places in the two trees                   *)
(***************************************************************************)

RECURSIVE Locs(_)
\* The places of the tree of e: <<>> is e, <<i>> \o l is the place l below the
\* i-th significant child of e.
Locs(e) ==
    {<<>>} \cup UNION {{<<i>> \o l : l \in Locs(Filtered(e)[i])}
                       : i \in DOMAIN Filtered(e)}

RECURSIVE NodeAt(_, _)
NodeAt(e, loc) ==
    IF loc = <<>> THEN e ELSE NodeAt(Filtered(e)[Head(loc)], Tail(loc))

Prefix(loc, k) == SubSeq(loc, 1, k)

Parent(loc) == Prefix(loc, Len(loc) - 1)

Last(loc) == loc[Len(loc)]

IsProperPrefix(q, loc) == Len(q) < Len(loc) /\ Prefix(loc, Len(q)) = q

\* Two elements with the same tag and the same attribute map.
MatchedElements(n1, n2) ==
    /\ n1.kind = "Element" /\ n2.kind = "Element"
    /\ n1.name = n2.name
    /\ AttrMap(n1.attrs) = AttrMap(n2.attrs)

\* A pair for which no difference is due.
Equivalent(n1, n2) ==
    \/ MatchedElements(n1, n2)
    \/ n1.kind = "Text" /\ n2.kind = "Text" /\ n1.text = n2.text
    \/ n1.kind \notin {"Element", "Text"} /\ n2.kind \notin {"Element", "Text"}

\* The places present in both documents.
CommonLocs == Locs(content1) \cap Locs(content2)

\* Every pair above loc is equivalent: the walk pairs the nodes at loc.
Paired(loc) ==
    \A k \in 1..(Len(loc) - 1) :
        Equivalent(NodeAt(content1, Prefix(loc, k)), NodeAt(content2, Prefix(loc, k)))

ReportedAt(loc) == {i \in DOMAIN reported : reported[i].at = loc}

ReportedBelow(loc) == {i \in DOMAIN reported : IsProperPrefix(loc, reported[i].at)}

\* The ElementInformation values a difference holds.
Infos(d) ==
    IF d.kind = "NotPresent"
    THEN {o.val : o \in {x \in {d.elem, d.opposite_elem} : x.some}}
    ELSE {d.elem, d.opposite_elem}

\* Number of path segments pushed by the activations on the stack.
ElementDepth == Cardinality({i \in DOMAIN stack : stack[i].need_pop})

(***************************************************************************)
(* C1                                                                      *)
(***************************************************************************)

RichDoc ==
    Document(<<HtmlDoctype,
               Div(<<Id1>>, <<Text(<<"h", "i">>), Comment(<<"c">>),
                              P(<<Id1, K2>>, <<Text(<<"x">>)>>)>>)>>)

\* C1: a document compared with itself never aborts the walk, reports nothing
\* on the way, and the returned list is empty.
C1_Identity ==
    content1 = content2 =>
        /\ pc # "panicked"
        /\ reported = <<>>
        /\ pc = "done" => result = <<>>

\* C1: the walk of a document with a doctype, attributes, text and a comment
\* against itself has returned.
C1_Witness == pc = "done" /\ content1 = RichDoc /\ content2 = RichDoc

(***************************************************************************)
(* C2                                                                      *)
(***************************************************************************)

\* The places where the walk pairs two elements of different tag names.
NameMismatches ==
    {loc \in CommonLocs :
        /\ loc # <<>>
        /\ Paired(loc)
        /\ NodeAt(content1, loc).kind = "Element"
        /\ NodeAt(content2, loc).kind = "Element"
        /\ NodeAt(content1, loc).name # NodeAt(content2, loc).name}

\* The walk is about to compare the pair at loc.
Comparing(loc) == pc = "walk" /\ (Next1.some \/ Next2.some) /\ HereAt = loc

\* C2 (state part): at a place where two paired elements differ in tag name,
\* nothing is ever reported below, at most one difference is reported, it is
\* a NodeName, and it is there once the walk has returned.
C2_OneNodeName ==
    \A loc \in NameMismatches :
        /\ ReportedBelow(loc) = {}
        /\ Cardinality(ReportedAt(loc)) <= 1
        /\ \A i \in ReportedAt(loc) : reported[i].diff.kind = "NodeName"
        /\ pc = "done" => Cardinality(ReportedAt(loc)) = 1

\* C2 (step part): the step taken at such a place reports and leaves the same
\* activation running, one position further: the next sibling position is
\* what the walk compares next.
C2_Continues ==
    \A loc \in NameMismatches :
        Comparing(loc) =>
            /\ pc' = "walk"
            /\ Len(stack') = Len(stack)
            /\ Top' = [Top EXCEPT !.it = @ + 1, !.differences = Append(@, reported'[Len(reported')].diff)]
            /\ Len(reported') = Len(reported) + 1
            /\ reported'[Len(reported')].at = loc

\* C2: short-circuit on a tag name mismatch.
C2_ShortCircuit == [](C2_OneNodeName) /\ [][C2_Continues]_vars

\* C2: the walk has returned from two documents in which two paired elements
\* of different tag names both have children and are followed by a sibling.
C2_Witness ==
    /\ pc = "done"
    /\ \E loc \in NameMismatches :
          /\ Filtered(NodeAt(content1, loc)) # <<>>
          /\ Filtered(NodeAt(content2, loc)) # <<>>
          /\ ReportedAt(Parent(loc) \o <<Last(loc) + 1>>) # {}

(***************************************************************************)
(* C3                                                                      *)
(***************************************************************************)

\* The places whose children the walk compares: the roots, and every paired
\* equivalent pair.
Levels ==
    {loc \in CommonLocs :
        /\ Paired(loc)
        /\ loc # <<>> => Equivalent(NodeAt(content1, loc), NodeAt(content2, loc))}

Width1(loc) == Len(Filtered(NodeAt(content1, loc)))

Width2(loc) == Len(Filtered(NodeAt(content2, loc)))

NotPresentAt(loc) ==
    {i \in DOMAIN reported :
        /\ reported[i].diff.kind = "NotPresent"
        /\ Len(reported[i].at) = Len(loc) + 1
        /\ Parent(reported[i].at) = loc}

\* A NotPresent difference holds exactly one side.
OneSided(d) == d.elem.some # d.opposite_elem.some

\* C3 (result part): once the walk has returned, every level with N children
\* on one side and M < N on the other has exactly N - M NotPresent
\* differences, one per trailing position, each holding the side that has the
\* node and only that side.
C3_Counts ==
    pc = "done" =>
        \A loc \in Levels :
            LET n1 == Width1(loc)
                n2 == Width2(loc)
                lo == IF n1 < n2 THEN n1 ELSE n2
                hi == IF n1 < n2 THEN n2 ELSE n1
            IN /\ Cardinality(NotPresentAt(loc)) = hi - lo
               /\ \A k \in (lo + 1)..hi :
                     \E i \in NotPresentAt(loc) :
                        /\ Last(reported[i].at) = k
                        /\ reported[i].diff.elem.some = (n1 > n2)
                        /\ reported[i].diff.opposite_elem.some = (n2 > n1)

\* C3 (step part): the iteration that finds a child on one side only reports a
\* NotPresent difference holding that side.
C3_Step ==
    (pc = "walk" /\ Next1.some # Next2.some) =>
        /\ Len(reported') = Len(reported) + 1
        /\ LET d == reported'[Len(reported')].diff
           IN /\ d.kind = "NotPresent"
              /\ d.elem.some = Next1.some
              /\ d.opposite_elem.some = Next2.some

\* C3: every unpaired trailing position yields its NotPresent difference.
C3_NotPresent == [](C3_Counts) /\ [][C3_Step]_vars

\* No returned NotPresent difference has both sides or neither.
C3_OneSided ==
    \A i \in DOMAIN reported :
        reported[i].diff.kind = "NotPresent" => OneSided(reported[i].diff)

(***************************************************************************)
(* C4                                                                      *)
(***************************************************************************)

\* Number of matched element pairs at the sibling positions before loc.
SegIndex(loc) ==
    Cardinality({k \in 1..(Last(loc) - 1) :
        MatchedElements(NodeAt(content1, Parent(loc) \o <<k>>),
                        NodeAt(content2, Parent(loc) \o <<k>>))})

ExpectedSegment(loc) ==
    NodeAt(content1, loc).name \o <<"[">> \o Decimal(SegIndex(loc)) \o <<"]">>

\* One segment per ancestor pair of the place, root first, each after a "/".
ExpectedPath(at) ==
    Concat([k \in 1..(Len(at) - 1) |-> Slash \o ExpectedSegment(Prefix(at, k))])

BelowOriginal ==
    Parsed(<<Div(<<>>, <<Foo(<<>>), El(<<"a">>, <<>>),
                         El(<<"b">>, <<El(<<"c">>, <<>>)>>)>>)>>)

BelowOther ==
    Parsed(<<Div(<<>>, <<Foo(<<>>), El(<<"a">>, <<>>),
                         El(<<"b">>, <<El(<<"c">>, <<El(<<"d">>, <<>>)>>)>>)>>)>>)

\* "/html[0]/body[1]/div[0]/b[2]/c[0]"
BelowPath ==
    <<"/", "h", "t", "m", "l", "[", "0", "]",
      "/", "b", "o", "d", "y", "[", "1", "]",
      "/", "d", "i", "v", "[", "0", "]",
      "/", "b", "[", "2", "]",
      "/", "c", "[", "0", "]">>

\* C4: the path of every difference is made of one segment tag[index] per
\* ancestor pair, root first, index counting the matched element pairs at the
\* earlier sibling positions; the extra d of test_path is reported at
\* /html[0]/body[1]/div[0]/b[2]/c[0].
C4_Path ==
    /\ \A i \in DOMAIN reported :
          \A info \in Infos(reported[i].diff) :
              info.path = ExpectedPath(reported[i].at)
    /\ (pc = "done" /\ content1 = BelowOriginal /\ content2 = BelowOther) =>
          /\ Len(result) = 1
          /\ result[1].kind = "NotPresent"
          /\ ~result[1].elem.some
          /\ result[1].opposite_elem.some
          /\ result[1].opposite_elem.val.path = BelowPath

\* C4: the walk of the two documents of test_path has returned.
C4_Witness ==
    pc = "done" /\ content1 = BelowOriginal /\ content2 = BelowOther /\ Len(result) = 1

\* C4: a difference was reported below an element pair that follows a
\* mismatched position and a text position of its level.
C4_SkippedPositions ==
    \E i \in DOMAIN reported :
        \E k \in 1..(Len(reported[i].at) - 1) :
            LET loc == Prefix(reported[i].at, k)
            IN /\ Last(loc) > 1
               /\ SegIndex(loc) < Last(loc) - 1

(***************************************************************************)
(* C7                                                                      *)
(***************************************************************************)

\* C7: no step of the walk aborts.
C7_Totality == pc # "panicked"

(***************************************************************************)
(* C8                                                                      *)
(***************************************************************************)

\* The activations that pushed a segment, outermost first.
ElementFrames == SelectSeq(stack, LAMBDA f : f.need_pop)

Digits == {DigitChar[i] : i \in DOMAIN DigitChar}

\* seg is tag[index]
IsTagIndex(seg, tag) ==
    /\ Len(seg) >= Len(tag) + 3
    /\ SubSeq(seg, 1, Len(tag)) = tag
    /\ seg[Len(tag) + 1] = "["
    /\ seg[Len(seg)] = "]"
    /\ \A k \in (Len(tag) + 2)..(Len(seg) - 1) : seg[k] \in Digits

Slashes(str) == Cardinality({k \in DOMAIN str : str[k] = "/"})

\* C8 as stated: the tracker is empty at the roots and holds k segments k
\* elements below them.
C8_Original == pc = "walk" => Len(path) = ElementDepth

\* C8 as amended: the tracker starts with one empty segment; k elements below
\* the roots it holds that segment followed by k segments tag[index], and a
\* difference found there has a path of k segments each after a "/".
C8_PathLength ==
    /\ pc = "walk" =>
          /\ Len(path) = ElementDepth + 1
          /\ path[1] = EmptyString
          /\ \A k \in DOMAIN ElementFrames :
                IsTagIndex(path[k + 1], ElementFrames[k].element1.name)
    /\ \A i \in DOMAIN reported :
          \A info \in Infos(reported[i].diff) :
              Slashes(info.path) = Len(reported[i].at) - 1

\* C8: a difference was reported three elements deep and the walk is still
\* there.
C8_Witness ==
    /\ pc = "walk"
    /\ ElementDepth = 3
    /\ \E i \in DOMAIN reported : Len(reported[i].at) = 4

(***************************************************************************)
(* C9                                                                      *)
(***************************************************************************)

\* Place a comes before place b: they part at some level, a to the left.
Before(a, b) ==
    \E k \in 1..Len(a) :
        /\ k <= Len(b)
        /\ Prefix(a, k - 1) = Prefix(b, k - 1)
        /\ a[k] < b[k]

\* C9: the returned list is the differences in the order the walk met them,
\* left to right and subtree by subtree, each of them below equivalent
\* ancestors only.
C9_Order ==
    pc = "done" =>
        /\ Len(result) = Len(reported)
        /\ \A i \in DOMAIN reported : result[i] = reported[i].diff
        /\ \A i, j \in DOMAIN reported : i < j => Before(reported[i].at, reported[j].at)
        /\ \A i \in DOMAIN reported : Paired(reported[i].at)

\* C9: the returned list holds a difference found inside a subtree followed by
\* one found at a later sibling of an ancestor, after an earlier difference of
\* the caller.
C9_Witness ==
    /\ pc = "done"
    /\ \E i, j, k \in DOMAIN result :
          /\ i < j /\ j < k
          /\ Len(reported[i].at) < Len(reported[j].at)
          /\ Len(reported[k].at) < Len(reported[j].at)

(***************************************************************************)
(* C10                                                                     *)
(***************************************************************************)

\* The element name the claim gives the description of a node.
NameFits(info, node) ==
    info.element_name = IF node.kind = "Element" THEN node.name ELSE EmptyString

DescribesWell(d, at) ==
    IF d.kind = "NotPresent"
    THEN /\ d.elem.some => NameFits(d.elem.val, NodeAt(content1, at))
         /\ d.opposite_elem.some => NameFits(d.opposite_elem.val, NodeAt(content2, at))
    ELSE /\ NameFits(d.elem, NodeAt(content1, at))
         /\ NameFits(d.opposite_elem, NodeAt(content2, at))

\* C10: in every returned difference the description of an element bears its
\* tag name and the description of any other node an empty name.
C10_Names ==
    pc = "done" => \A i \in DOMAIN reported : DescribesWell(reported[i].diff, reported[i].at)

\* The element half of C10 alone.
C10_ElementNames ==
    \A i \in DOMAIN reported :
        LET d == reported[i].diff
            at == reported[i].at
        IN /\ (d.kind # "NotPresent" /\ NodeAt(content1, at).kind = "Element")
                => d.elem.element_name = NodeAt(content1, at).name
           /\ (d.kind # "NotPresent" /\ NodeAt(content2, at).kind = "Element")
                => d.opposite_elem.element_name = NodeAt(content2, at).name
           /\ (d.kind = "NotPresent" /\ d.elem.some /\ NodeAt(content1, at).kind = "Element")
                => d.elem.val.element_name = NodeAt(content1, at).name
           /\ (d.kind = "NotPresent" /\ d.opposite_elem.some
                 /\ NodeAt(content2, at).kind = "Element")
                => d.opposite_elem.val.element_name = NodeAt(content2, at).name

(***************************************************************************)
(* C5                                                                      *)
(***************************************************************************)

BlankInfo(info) == [info EXCEPT !.element_content = EmptyString]

BlankOption(o) == IF o.some THEN Some(BlankInfo(o.val)) ELSE None

\* d without its element_content snapshots.
Blank(d) ==
    IF d.kind = "NotPresent"
    THEN [d EXCEPT !.elem = BlankOption(@), !.opposite_elem = BlankOption(@)]
    ELSE [d EXCEPT !.elem = BlankInfo(@), !.opposite_elem = BlankInfo(@)]

BlankAll(ds) == [i \in DOMAIN ds |-> Blank(ds[i])]

AfterInsertion == first.called /\ first.how = "insert" /\ Finished

\* C5 as stated: after the insertion of a comment or of a blank text node in
\* one document the walk ends as before and returns the same list.
C5_Original ==
    AfterInsertion =>
        /\ pc = first.pc
        /\ pc = "done" => result = first.result

\* C5 as amended: the walk ends as before and returns the same list up to the
\* element_content snapshots (same length and order, categories, paths, element
\* names, text and attribute payloads); two documents that were identical
\* still yield no difference.
C5_Insignificance ==
    AfterInsertion =>
        /\ pc = first.pc
        /\ pc = "done" => BlankAll(result) = BlankAll(first.result)
        /\ (pc = "done" /\ first.content1 = first.content2) => result = <<>>

\* C5: a walk that returned two differences or more was repeated after an
\* insertion and returned a list that differs in an element_content only.
C5_Witness ==
    /\ AfterInsertion
    /\ pc = "done"
    /\ Len(first.result) >= 2
    /\ result # first.result

(***************************************************************************)
(* C6                                                                      *)
(***************************************************************************)

\* d as the comparison the other way round reports it.
SwapDiff(d) ==
    IF d.kind = "NodeAttributes"
    THEN NodeAttributes(d.opposite_elem, d.opposite_elem_attributes,
                        d.elem, d.elem_attributes)
    ELSE IF d.kind = "NodeText"
    THEN NodeText(d.opposite_elem, d.opposite_elem_text, d.elem, d.elem_text)
    ELSE [d EXCEPT !.elem = d.opposite_elem, !.opposite_elem = d.elem]

Symmetric == {"NodeText", "NodeAttributes"}

AfterSwap == first.called /\ first.how = "swap" /\ first.pc = "done"

\* C6: when the first comparison returned a NodeText or NodeAttributes
\* difference, the comparison the other way round returns too, with the same
\* category at the same path and the two sides and their payloads exchanged.
C6_Symmetry ==
    AfterSwap =>
        \A i \in DOMAIN first.result :
            first.result[i].kind \in Symmetric =>
                /\ pc # "panicked"
                /\ pc = "done" =>
                      \E j \in DOMAIN result : result[j] = SwapDiff(first.result[i])

\* C6: both comparisons returned, the first with a NodeText and a
\* NodeAttributes difference.
C6_Witness ==
    /\ AfterSwap
    /\ pc = "done"
    /\ \E i, j \in DOMAIN first.result :
          /\ first.result[i].kind = "NodeText"
          /\ first.result[i].elem_text # first.result[i].opposite_elem_text
          /\ first.result[j].kind = "NodeAttributes"
          /\ first.result[j].elem_attributes # first.result[j].opposite_elem_attributes

====
